---- MODULE Spec2Model ----
(***************************************************************************)
(* One replica of the Ray/Torch training script                            *)
(* examples/ai-ml/ray/sources/train.py: train_func and the two epoch       *)
(* functions it calls, at statement granularity.                           *)
(*                                                                         *)
(* Numeric abstraction: the network is one integer weight modulo ModP, a   *)
(* sample is its dataset index (input) and a class label, the forward pass *)
(* yields the predicted class, loss_fn counts the wrong predictions of a   *)
(* batch, backward adds that loss to the accumulated gradient and the SGD  *)
(* step moves the weight by LR times the accumulated gradient.  Floating   *)
(* point quotients are kept exact as records [num, den].                   *)
(***************************************************************************)
EXTENDS Integers, Sequences, FiniteSets, TLC

\* ---- bounds of the model ----
MaxEpochs == 2
MaxBatch == 3
MaxWorld == 2
TrainSize == 2     \* length of the training set
MaxTest == 3
NumClasses == 2
ModP == 3

\* the configured learning rate lr, in units of the weight grid
LR == 1

VARIABLES
    config,            \* epochs, batch_size, world size, rank, dataset lengths, test labels
    pc,                \* position of the replica in train_func
    epoch,             \* loop variable of train_func: index of the running epoch
    worker_batch_size, \* batch_size // world size
    params,            \* the model parameters
    grad,              \* gradients accumulated on the parameters
    tIdx,              \* train_epoch: number of batches fetched in this pass
    pred,              \* train_epoch: prediction of the current batch
    tloss,             \* train_epoch: loss of the current batch
    tlog,              \* history: operations of the running train_epoch call
    stepCount,         \* history: number of writes to params in the running train_epoch call
    size,              \* validate_epoch: len(dataset) // world size
    num_batches,       \* validate_epoch: len(dataloader)
    vIdx,              \* validate_epoch: number of batches consumed
    test_loss,         \* validate_epoch: accumulated, then averaged loss
    correct,           \* validate_epoch: accumulated, then divided correct count
    loss,              \* train_func: loss returned by validate_epoch
    loss_results,      \* train_func: list of epoch losses
    checkpoint,        \* train_func: checkpoint built for the running epoch
    reports,           \* history: (loss, checkpoint) pairs accepted by session.report
    returned,          \* value returned by train_func, None until it returns
    failPhase,         \* phase whose error aborted the run, "none" if none
    calls,             \* history: started/finished calls per phase
    paramsAfterPass,   \* history: parameters at the return of each train_epoch call
    vStartParams       \* history: parameters at the start of the running validate_epoch call

vars == <<config, pc, epoch, worker_batch_size, params, grad, tIdx, pred, tloss,
          tlog, stepCount, size, num_batches, vIdx, test_loss, correct, loss,
          loss_results, checkpoint, reports, returned, failPhase, calls,
          paramsAfterPass, vStartParams>>

None == [none |-> TRUE]

Min(a, b) == IF a <= b THEN a ELSE b

CeilDiv(a, b) == (a + b - 1) \div b

Rat(n, d) == [num |-> n, den |-> d]

\* ---- data loading ----

\* label of sample i (0-based) of the training set
TrainLabel(i) == 0

\* label of sample i (0-based) of the test set
TestLabel(i) == config.testY[i + 1]

\* variant: the per-replica batch size rounded up
WorkerBatchSizeCeil(B, W) == CeilDiv(B, W)

\* batch_size // session.get_world_size()
WorkerBatchSize(B, W) == B \div W

\* Indices of the samples one replica iterates over.  prepare_data_loader
\* installs a distributed sampler without shuffling: the index list is padded
\* by wrapping around to a multiple of W and rank r takes every W-th index
\* starting at r, that is ceil(N / W) samples.
Shard(N, W, r) ==
    IF N = 0 THEN << >>
    ELSE [k \in 1..CeilDiv(N, W) |-> (r + (k - 1) * W) % N]

\* len(dataloader)
NumBatchesOf(shard, bs) == CeilDiv(Len(shard), bs)

\* the k-th batch (1-based) of a loader with batch size bs; the last may be short
BatchOf(shard, bs, k) == SubSeq(shard, (k - 1) * bs + 1, Min(k * bs, Len(shard)))

TrainShard == Shard(config.nTrain, config.world, config.rank)
TestShard == Shard(config.nTest, config.world, config.rank)

\* ---- the network and the loss ----

\* NeuralNetwork.forward followed by argmax: predicted class of input x
Forward(p, x) == (p + x) % NumClasses

\* model(X): predictions of a batch
Model(p, X) == [i \in 1..Len(X) |-> Forward(p, X[i])]

RECURSIVE CountWrong(_, _)
CountWrong(pr, y) ==
    IF Len(pr) = 0 THEN 0
    ELSE (IF Head(pr) # Head(y) THEN 1 ELSE 0) + CountWrong(Tail(pr), Tail(y))

\* loss_fn(pred, y).item()
LossFn(pr, y) == CountWrong(pr, y)

\* (pred.argmax(1) == y).type(torch.float).sum().item()
NumCorrect(pr, y) == Len(pr) - CountWrong(pr, y)

TrainLabels(X) == [i \in 1..Len(X) |-> TrainLabel(X[i])]
TestLabels(X) == [i \in 1..Len(X) |-> TestLabel(X[i])]

\* optimizer.step() of SGD
SgdStep(p, g) == (p + LR * g) % ModP

\* ---- initial state: module import and the orchestrator's call of train_func ----
\* The weights as constructed are the origin of the weight grid; the test
\* labels range over all label vectors, which covers every pattern of right
\* and wrong predictions of the validator.
Init ==
    /\ \E E \in 0..MaxEpochs, B \in 1..MaxBatch, W \in 1..MaxWorld,
          nTe \in 0..MaxTest :
         \E r \in 0..(W - 1), ys \in [1..nTe -> 0..(NumClasses - 1)] :
            config = [epochs |-> E, batch_size |-> B, world |-> W, rank |-> r,
                      nTrain |-> TrainSize, nTest |-> nTe, testY |-> ys]
    /\ pc = "init"
    /\ epoch = 0
    /\ worker_batch_size = 0
    /\ params = 0
    /\ grad = 0
    /\ tIdx = 0
    /\ pred = << >>
    /\ tloss = 0
    /\ tlog = << >>
    /\ stepCount = 0
    /\ size = 0
    /\ num_batches = 0
    /\ vIdx = 0
    /\ test_loss = Rat(0, 1)
    /\ correct = Rat(0, 1)
    /\ loss = None
    /\ loss_results = << >>
    /\ checkpoint = None
    /\ reports = << >>
    /\ returned = None
    /\ failPhase = "none"
    /\ calls = [trainer |-> 0, validator |-> 0, report |-> 0]
    /\ paramsAfterPass = << >>
    /\ vStartParams = 0

trainVars == <<tIdx, pred, tloss, tlog, stepCount>>
valVars == <<size, num_batches, vIdx, test_loss, correct, vStartParams>>
driverVars == <<epoch, worker_batch_size, loss, loss_results, checkpoint, reports, returned>>
histVars == <<calls, paramsAfterPass>>

\* ---- train_func ----

\* lines 97-117: configuration, data loaders, model, optimizer, empty result list
Setup ==
    /\ pc = "init"
    /\ worker_batch_size' = WorkerBatchSize(config.batch_size, config.world)
    /\ loss_results' = << >>
    /\ IF worker_batch_size' <= 0
         THEN pc' = "failed" /\ failPhase' = "init"
         ELSE pc' = "loop" /\ failPhase' = failPhase
    /\ UNCHANGED <<config, epoch, params, grad, loss, checkpoint, reports, returned>>
    /\ UNCHANGED <<trainVars, valVars, histVars>>

\* variant: range(epochs + 1)
EpochStartInclusive ==
    /\ pc = "loop"
    /\ epoch <= config.epochs
    /\ pc' = "t_begin"
    /\ UNCHANGED <<config, params, grad, failPhase, driverVars, trainVars, valVars, histVars>>

\* line 119: the loop takes the next epoch index
EpochStart ==
    /\ pc = "loop"
    /\ epoch < config.epochs
    /\ pc' = "t_begin"
    /\ UNCHANGED <<config, params, grad, failPhase, driverVars, trainVars, valVars, histVars>>

\* line 129: the range is exhausted
Return ==
    /\ pc = "loop"
    /\ epoch >= config.epochs
    /\ returned' = loss_results
    /\ pc' = "completed"
    /\ UNCHANGED <<config, params, grad, failPhase, epoch, worker_batch_size, loss,
                   loss_results, checkpoint, reports, trainVars, valVars, histVars>>

\* ---- train_epoch ----

\* lines 59-60
TrainBegin ==
    /\ pc = "t_begin"
    /\ tIdx' = 0
    /\ tlog' = << >>
    /\ stepCount' = 0
    /\ calls' = [calls EXCEPT !.trainer = @ + 1]
    /\ pc' = "t_iter"
    /\ UNCHANGED <<config, params, grad, failPhase, driverVars, pred, tloss, valVars,
                   paramsAfterPass>>

\* line 61: the loader yields the next batch
TrainNext ==
    /\ pc = "t_iter"
    /\ tIdx < NumBatchesOf(TrainShard, worker_batch_size)
    /\ tIdx' = tIdx + 1
    /\ pc' = "t_pred"
    /\ UNCHANGED <<config, params, grad, failPhase, driverVars, pred, tloss, tlog,
                   stepCount, valVars, histVars>>

\* line 63
TrainPred ==
    /\ pc = "t_pred"
    /\ pred' = Model(params, BatchOf(TrainShard, worker_batch_size, tIdx))
    /\ tlog' = Append(tlog, <<tIdx, "pred">>)
    /\ pc' = "t_loss"
    /\ UNCHANGED <<config, params, grad, failPhase, driverVars, tIdx, tloss, stepCount,
                   valVars, histVars>>

\* variant: the loop body without optimizer.zero_grad()
TrainLossNoZeroGrad ==
    /\ pc = "t_loss"
    /\ tloss' = LossFn(pred, TrainLabels(BatchOf(TrainShard, worker_batch_size, tIdx)))
    /\ tlog' = Append(tlog, <<tIdx, "loss">>)
    /\ pc' = "t_back"
    /\ UNCHANGED <<config, params, grad, failPhase, driverVars, tIdx, pred, stepCount,
                   valVars, histVars>>

\* line 64
TrainLoss ==
    /\ pc = "t_loss"
    /\ tloss' = LossFn(pred, TrainLabels(BatchOf(TrainShard, worker_batch_size, tIdx)))
    /\ tlog' = Append(tlog, <<tIdx, "loss">>)
    /\ pc' = "t_zero"
    /\ UNCHANGED <<config, params, grad, failPhase, driverVars, tIdx, pred, stepCount,
                   valVars, histVars>>

\* line 67
TrainZeroGrad ==
    /\ pc = "t_zero"
    /\ grad' = 0
    /\ tlog' = Append(tlog, <<tIdx, "zero_grad">>)
    /\ pc' = "t_back"
    /\ UNCHANGED <<config, params, failPhase, driverVars, tIdx, pred, tloss, stepCount,
                   valVars, histVars>>

\* line 68
TrainBackward ==
    /\ pc = "t_back"
    /\ grad' = grad + tloss
    /\ tlog' = Append(tlog, <<tIdx, "backward">>)
    /\ pc' = "t_step"
    /\ UNCHANGED <<config, params, failPhase, driverVars, tIdx, pred, tloss, stepCount,
                   valVars, histVars>>

\* lines 69-73: the optimizer step; the progress line changes no state
TrainStep ==
    /\ pc = "t_step"
    /\ params' = SgdStep(params, grad)
    /\ stepCount' = stepCount + 1
    /\ tlog' = Append(tlog, <<tIdx, "step">>)
    /\ pc' = "t_iter"
    /\ UNCHANGED <<config, grad, failPhase, driverVars, tIdx, pred, tloss, valVars, histVars>>

\* variant: train_epoch returns before the loader is exhausted
TrainReturnEarly ==
    /\ pc = "t_iter"
    /\ paramsAfterPass' = Append(paramsAfterPass, params)
    /\ pc' = "v_begin"
    /\ UNCHANGED <<config, params, grad, failPhase, driverVars, trainVars, valVars, calls>>

\* line 61: the loader is exhausted, train_epoch returns to line 121
TrainReturn ==
    /\ pc = "t_iter"
    /\ tIdx >= NumBatchesOf(TrainShard, worker_batch_size)
    /\ paramsAfterPass' = Append(paramsAfterPass, params)
    /\ pc' = "v_begin"
    /\ UNCHANGED <<config, params, grad, failPhase, driverVars, trainVars, valVars, calls>>

\* ---- validate_epoch ----

\* lines 77-80
ValBegin ==
    /\ pc = "v_begin"
    /\ size' = config.nTest \div config.world
    /\ num_batches' = NumBatchesOf(TestShard, worker_batch_size)
    /\ test_loss' = Rat(0, 1)
    /\ correct' = Rat(0, 1)
    /\ vIdx' = 0
    /\ vStartParams' = params
    /\ calls' = [calls EXCEPT !.validator = @ + 1]
    /\ pc' = "v_iter"
    /\ UNCHANGED <<config, params, grad, failPhase, driverVars, trainVars, paramsAfterPass>>

\* variant: the validation batch also takes an optimizer step
ValBatchStepping ==
    /\ pc = "v_iter"
    /\ vIdx < NumBatchesOf(TestShard, worker_batch_size)
    /\ LET X == BatchOf(TestShard, worker_batch_size, vIdx + 1)
           pr == Model(params, X)
       IN  /\ test_loss' = Rat(test_loss.num + LossFn(pr, TestLabels(X)), 1)
           /\ correct' = Rat(correct.num + NumCorrect(pr, TestLabels(X)), 1)
           /\ params' = SgdStep(params, LossFn(pr, TestLabels(X)))
    /\ vIdx' = vIdx + 1
    /\ pc' = "v_iter"
    /\ UNCHANGED <<config, grad, failPhase, driverVars, trainVars, size,
                   num_batches, vStartParams, histVars>>

\* lines 82-85: one batch under no_grad
ValBatch ==
    /\ pc = "v_iter"
    /\ vIdx < NumBatchesOf(TestShard, worker_batch_size)
    /\ LET X == BatchOf(TestShard, worker_batch_size, vIdx + 1)
           pr == Model(params, X)
       IN  /\ test_loss' = Rat(test_loss.num + LossFn(pr, TestLabels(X)), 1)
           /\ correct' = Rat(correct.num + NumCorrect(pr, TestLabels(X)), 1)
    /\ vIdx' = vIdx + 1
    /\ pc' = "v_iter"
    /\ UNCHANGED <<config, params, grad, failPhase, driverVars, trainVars, size,
                   num_batches, vStartParams, histVars>>

\* variant: the loss sum divided by the sample count instead of the batch count
ValAvgLossBySize ==
    /\ pc = "v_iter"
    /\ vIdx >= NumBatchesOf(TestShard, worker_batch_size)
    /\ IF size = 0
         THEN /\ pc' = "failed"
              /\ failPhase' = "validator"
              /\ test_loss' = test_loss
         ELSE /\ pc' = "v_acc"
              /\ failPhase' = failPhase
              /\ test_loss' = Rat(test_loss.num, size)
    /\ UNCHANGED <<config, params, grad, driverVars, trainVars, size, num_batches, vIdx,
                   correct, vStartParams, histVars>>

\* line 86: test_loss /= num_batches
ValAvgLoss ==
    /\ pc = "v_iter"
    /\ vIdx >= NumBatchesOf(TestShard, worker_batch_size)
    /\ IF num_batches = 0
         THEN /\ pc' = "failed"
              /\ failPhase' = "validator"
              /\ test_loss' = test_loss
         ELSE /\ pc' = "v_acc"
              /\ failPhase' = failPhase
              /\ test_loss' = Rat(test_loss.num, num_batches)
    /\ UNCHANGED <<config, params, grad, driverVars, trainVars, size, num_batches, vIdx,
                   correct, vStartParams, histVars>>

\* variant: a division that yields inf or nan instead of raising
ValAccuracyNoRaise ==
    /\ pc = "v_acc"
    /\ pc' = "v_ret"
    /\ correct' = Rat(correct.num, size)
    /\ UNCHANGED <<config, params, grad, failPhase, driverVars, trainVars, size,
                   num_batches, vIdx, test_loss, vStartParams, histVars>>

\* line 87: correct /= size
ValAccuracy ==
    /\ pc = "v_acc"
    /\ IF size = 0
         THEN /\ pc' = "failed"
              /\ failPhase' = "validator"
              /\ correct' = correct
         ELSE /\ pc' = "v_ret"
              /\ failPhase' = failPhase
              /\ correct' = Rat(correct.num, size)
    /\ UNCHANGED <<config, params, grad, driverVars, trainVars, size, num_batches, vIdx,
                   test_loss, vStartParams, histVars>>

\* lines 88-93 and 121: print, return test_loss, bound to loss in train_func
ValReturn ==
    /\ pc = "v_ret"
    /\ loss' = test_loss
    /\ pc' = "append"
    /\ UNCHANGED <<config, params, grad, failPhase, epoch, worker_batch_size, loss_results,
                   checkpoint, reports, returned, trainVars, valVars, histVars>>

\* ---- train_func, rest of the loop body ----

\* variant: the loop body without loss_results.append(loss)
AppendLossDropped ==
    /\ pc = "append"
    /\ pc' = "ckpt"
    /\ UNCHANGED <<config, params, grad, failPhase, driverVars, trainVars, valVars, histVars>>

\* line 122
AppendLoss ==
    /\ pc = "append"
    /\ loss_results' = Append(loss_results, loss)
    /\ pc' = "ckpt"
    /\ UNCHANGED <<config, params, grad, failPhase, epoch, worker_batch_size, loss,
                   checkpoint, reports, returned, trainVars, valVars, histVars>>

\* variant: a checkpoint numbered from 1
MakeCheckpointOneBased ==
    /\ pc = "ckpt"
    /\ checkpoint' = [epoch |-> epoch + 1, model |-> params]
    /\ calls' = [calls EXCEPT !.report = @ + 1]
    /\ pc' = "report"
    /\ UNCHANGED <<config, params, grad, failPhase, epoch, worker_batch_size, loss,
                   loss_results, reports, returned, trainVars, valVars, paramsAfterPass>>

\* lines 124-126
MakeCheckpoint ==
    /\ pc = "ckpt"
    /\ checkpoint' = [epoch |-> epoch, model |-> params]
    /\ calls' = [calls EXCEPT !.report = @ + 1]
    /\ pc' = "report"
    /\ UNCHANGED <<config, params, grad, failPhase, epoch, worker_batch_size, loss,
                   loss_results, reports, returned, trainVars, valVars, paramsAfterPass>>

\* line 127 and the loop's back edge: session.report returns
Report ==
    /\ pc = "report"
    /\ reports' = Append(reports, [loss |-> loss, checkpoint |-> checkpoint])
    /\ epoch' = epoch + 1
    /\ pc' = "loop"
    /\ UNCHANGED <<config, params, grad, failPhase, worker_batch_size, loss, loss_results,
                   checkpoint, returned, trainVars, valVars, histVars>>

\* ---- errors raised by the numeric library or the tracking collaborator ----

Abort(phase) ==
    /\ pc' = "failed"
    /\ failPhase' = phase
    /\ UNCHANGED <<config, params, grad, driverVars, trainVars, valVars, histVars>>

\* lines 63-64: the forward pass or the loss of a training batch raises
FailTrainer ==
    /\ pc \in {"t_pred", "t_loss"}
    /\ Abort("trainer")

\* lines 83-85: an error of the numeric computation of a validation batch
FailValidator ==
    /\ pc = "v_iter"
    /\ vIdx < NumBatchesOf(TestShard, worker_batch_size)
    /\ Abort("validator")

\* lines 124-127: building or reporting the checkpoint raises
FailReport ==
    /\ pc \in {"ckpt", "report"}
    /\ Abort("report")

Next ==
    \/ Setup
    \/ EpochStart
    \/ Return
    \/ TrainBegin
    \/ TrainNext
    \/ TrainPred
    \/ TrainLoss
    \/ TrainZeroGrad
    \/ TrainBackward
    \/ TrainStep
    \/ TrainReturn
    \/ ValBegin
    \/ ValBatch
    \/ ValAvgLoss
    \/ ValAccuracy
    \/ ValReturn
    \/ AppendLoss
    \/ MakeCheckpoint
    \/ Report
    \/ FailTrainer
    \/ FailValidator
    \/ FailReport

Spec == Init /\ [][Next]_vars

\* The replica is a sequential program: the interpreter always takes its next step.
LiveSpec == Init /\ [][Next]_vars /\ WF_vars(Next)

TypeOK ==
    /\ pc \in {"init", "loop", "t_begin", "t_iter", "t_pred", "t_loss", "t_zero", "t_back",
               "t_step", "v_begin", "v_iter", "v_acc", "v_ret", "append", "ckpt", "report",
               "completed", "failed"}
    /\ params \in 0..(ModP - 1)
    /\ epoch \in 0..config.epochs

\* ---- operators used to state the properties ----

TrainPcs == {"t_begin", "t_iter", "t_pred", "t_loss", "t_zero", "t_back", "t_step"}
ValPcs == {"v_begin", "v_iter", "v_acc", "v_ret"}
ReportPcs == {"ckpt", "report"}

NumTrainBatches == NumBatchesOf(TrainShard, worker_batch_size)
NumTestBatches == NumBatchesOf(TestShard, worker_batch_size)

IsPrefix(s, t) == Len(s) <= Len(t) /\ SubSeq(t, 1, Len(s)) = s

\* the operations of n batches, each batch performing the operations of order in sequence
OpsLog(order, n) ==
    [j \in 1..(n * Len(order)) |->
        <<((j - 1) \div Len(order)) + 1, order[((j - 1) % Len(order)) + 1]>>]

CodeOrder == <<"pred", "loss", "zero_grad", "backward", "step">>
ClaimedOrder == <<"pred", "loss", "backward", "step", "zero_grad">>

\* sum of the losses of the first k test batches under parameters p
RECURSIVE SumLosses(_, _)
SumLosses(p, k) ==
    IF k = 0 THEN 0
    ELSE LET X == BatchOf(TestShard, worker_batch_size, k)
         IN  SumLosses(p, k - 1) + LossFn(Model(p, X), TestLabels(X))

\* the average loss per batch of a validation pass under parameters p
AvgLoss(p) == Rat(SumLosses(p, NumTestBatches), NumTestBatches)

\* C1 (as amended): a run that completes has appended exactly E losses and
\* emitted exactly E reports whose checkpoint epochs are 0, 1, ..., E-1 in
\* order; at every moment the number of reports equals the number of
\* completed epochs, and the number of appended losses equals it too except
\* between the append of line 122 and the return of session.report, where
\* the result list is one entry ahead.  With E = 0 both stay empty.
C1_EpochResults ==
    /\ Len(reports) = epoch
    /\ Len(loss_results) =
          epoch + (IF pc \in ReportPcs \/ (pc = "failed" /\ failPhase = "report")
                     THEN 1 ELSE 0)
    /\ \A i \in 1..Len(reports) : reports[i].checkpoint.epoch = i - 1
    /\ pc = "completed" =>
          /\ returned = loss_results
          /\ Len(returned) = config.epochs
          /\ Len(reports) = config.epochs

C1_Witness ==
    /\ pc = "completed"
    /\ config.epochs = MaxEpochs
    /\ Len(returned) = MaxEpochs
    /\ reports[MaxEpochs].checkpoint.epoch = MaxEpochs - 1

\* C1 as stated: in every state the number of results equals the number of
\* reports equals the number of completed epochs.
C1_Original ==
    /\ Len(reports) = epoch
    /\ Len(loss_results) = Len(reports)
    /\ \A i \in 1..Len(reports) : reports[i].checkpoint.epoch = i - 1
    /\ pc = "completed" =>
          /\ Len(returned) = config.epochs
          /\ Len(reports) = config.epochs

\* C2: in every epoch the trainer, the validator and the report run once
\* each in this order: the validator starts only when the trainer has
\* consumed all its batches, the result is appended only when the validator
\* has returned, and the next trainer starts only after session.report
\* has returned.
C2_PhaseCounts ==
    /\ pc \in {"loop", "t_begin", "completed"} =>
          calls = [trainer |-> epoch, validator |-> epoch, report |-> epoch]
    /\ pc \in (TrainPcs \ {"t_begin"}) \cup {"v_begin"} =>
          calls = [trainer |-> epoch + 1, validator |-> epoch, report |-> epoch]
    /\ pc \in (ValPcs \ {"v_begin"}) \cup {"append", "ckpt"} =>
          calls = [trainer |-> epoch + 1, validator |-> epoch + 1, report |-> epoch]
    /\ pc = "report" =>
          calls = [trainer |-> epoch + 1, validator |-> epoch + 1, report |-> epoch + 1]

C2_PhaseSteps ==
    /\ (pc # "v_begin" /\ pc' = "v_begin") =>
          /\ pc = "t_iter"
          /\ tIdx = NumTrainBatches
          /\ stepCount = NumTrainBatches
    /\ (pc # "append" /\ pc' = "append") => pc = "v_ret" /\ vIdx = NumTestBatches
    /\ (pc # "ckpt" /\ pc' = "ckpt") => pc = "append"
    /\ (pc # "t_begin" /\ pc' = "t_begin") => pc = "loop"
    /\ (pc # "loop" /\ pc' = "loop") =>
          \/ pc = "init"
          \/ pc = "report" /\ Len(reports') = Len(reports) + 1

\* C2: the phase counts hold in every state and every phase change is one
\* of the steps trainer -> validator -> append -> report -> next epoch.
C2_PhaseOrder == [](C2_PhaseCounts) /\ [][C2_PhaseSteps]_vars

C2_Witness ==
    /\ pc = "t_pred"
    /\ epoch = 1
    /\ calls = [trainer |-> 2, validator |-> 1, report |-> 1]

\* C3: only the optimizer step of the trainer changes the model parameters;
\* the validator and the reporting step leave them as they were when the
\* validator started, so a validation pass repeated on them reads the same
\* parameters and the same batches.
C3_ParamsStable ==
    pc \in (ValPcs \ {"v_begin"}) \cup {"append", "ckpt", "report"} =>
        params = vStartParams

C3_ParamsStep == params' # params => pc = "t_step" /\ pc' = "t_iter"

\* C3: the parameters are stable from the validator's start to the report's
\* return, and every step that changes them is the optimizer step.
C3_ParamsFrame == [](C3_ParamsStable) /\ [][C3_ParamsStep]_vars

C3_Witness ==
    /\ pc = "report"
    /\ epoch = 1
    /\ vIdx >= 2
    /\ params # paramsAfterPass[1]

\* C4 as stated: in validate_epoch the accumulated count of correct
\* predictions never exceeds size = N // W, and the accuracy lies in [0, 1].
C4_AccuracyBounded ==
    /\ pc \in {"v_iter", "v_acc"} => correct.num <= size
    /\ pc = "v_ret" => 0 <= correct.num /\ correct.num <= correct.den

\* C5 (as amended): train_epoch takes the batches once each, in order, and
\* for each batch computes the prediction, computes the loss, clears the
\* accumulated gradients, propagates the gradients and applies exactly one
\* optimizer step: the clearing for batch i happens after the loss of batch
\* i and before its backward pass, so the step of batch i uses the gradient
\* of batch i alone, and the parameters are written once per batch.
C5_BatchSteps ==
    /\ tlog # << >> => IsPrefix(tlog, OpsLog(CodeOrder, NumTrainBatches))
    /\ pc = "t_iter" => Len(tlog) = Len(CodeOrder) * tIdx /\ stepCount = tIdx
    /\ pc \in {"t_pred", "t_loss", "t_zero", "t_back", "t_step"} => stepCount = tIdx - 1
    /\ pc = "t_step" => grad = tloss

C5_Witness ==
    /\ pc = "t_iter"
    /\ tIdx = 2
    /\ stepCount = 2
    /\ tlog[8] = <<2, "zero_grad">>

\* C5 as stated: per batch the order is prediction, loss, backward, optimizer
\* step, then zero_grad, the clearing of batch i following its step.
C5_Original ==
    /\ tlog # << >> => IsPrefix(tlog, OpsLog(ClaimedOrder, NumTrainBatches))
    /\ pc = "t_iter" => stepCount = tIdx

\* C6 (as amended): a failure is fatal and never retried: after a failure in
\* epoch k no further step is taken, nothing is returned and exactly k
\* reports have been emitted; the result list holds k losses when the
\* trainer or the validator failed and k + 1 when building or reporting the
\* checkpoint failed, the loss of epoch k being appended before the report.
\* A validator pass over zero batches or with N // W = 0 never returns
\* normally.
C6_FatalFailure ==
    /\ pc = "failed" =>
          /\ ~ ENABLED Next
          /\ returned = None
          /\ failPhase \in {"init", "trainer", "validator", "report"}
          /\ Len(reports) = epoch
          /\ Len(loss_results) = epoch + (IF failPhase = "report" THEN 1 ELSE 0)
          /\ calls.trainer <= epoch + 1
    /\ pc # "failed" => failPhase = "none"
    /\ (pc \in {"v_ret", "append", "ckpt", "report"} \/ Len(reports) > 0) =>
          /\ NumTestBatches > 0
          /\ config.nTest \div config.world > 0

C6_Witness ==
    /\ pc = "failed"
    /\ failPhase = "report"
    /\ epoch = 1
    /\ Len(loss_results) = 2
    /\ Len(reports) = 1

\* C6 as stated: after a failure in epoch k exactly k results and k
\* checkpoints exist and nothing is returned.
C6_Original ==
    pc = "failed" =>
        /\ ~ ENABLED Next
        /\ returned = None
        /\ Len(reports) = epoch
        /\ Len(loss_results) = epoch

\* C7: validate_epoch returns the sum of the losses of all its batches
\* divided by the number of batches, and the value appended to loss_results
\* and reported for the epoch is that returned value.
C7_AverageLoss ==
    /\ pc = "v_ret" => test_loss = AvgLoss(vStartParams) /\ test_loss.den > 0
    /\ pc \in {"append", "ckpt", "report"} => loss = test_loss /\ loss = AvgLoss(vStartParams)
    /\ pc \in ReportPcs => loss_results[Len(loss_results)] = loss
    /\ \A i \in 1..Len(reports) : reports[i].loss = loss_results[i]

C7_Witness ==
    /\ pc = "report"
    /\ NumTestBatches >= 2
    /\ loss.num >= 2
    /\ loss.den = NumTestBatches
    /\ config.nTest \div config.world # NumTestBatches

\* C8 (as amended): every replica uses the batch size B // W; the W
\* per-replica sizes sum to at most B, fall short of B by less than W, sum to
\* B exactly when W divides B, and are at least 1 exactly when B >= W
\* (with B < W the size is 0 and the data loaders cannot be built).
C8_WorkerBatchSize ==
    pc # "init" =>
        LET B == config.batch_size
            W == config.world
            total == W * worker_batch_size
        IN  /\ total <= B
            /\ B - total < W
            /\ (total = B) <=> (B % W = 0)
            /\ (worker_batch_size >= 1) <=> (B >= W)
            /\ worker_batch_size = 0 => pc = "failed" /\ failPhase = "init"

C8_Witness ==
    /\ pc = "loop"
    /\ config.batch_size = 3
    /\ config.world = 2
    /\ worker_batch_size = 1

\* C8 as stated: the per-replica batch sizes sum to B and each is at least 1.
C8_Original ==
    pc # "init" =>
        /\ config.world * worker_batch_size = config.batch_size
        /\ worker_batch_size >= 1

\* C9: the checkpoint reported for epoch e holds the index e and the
\* parameters left by the (e+1)-th trainer pass, and the loss reported with
\* it is the validator's loss on those parameters; the parameters do not
\* change between the validator and the report.
C9_Checkpoint ==
    /\ \A i \in 1..Len(reports) :
          /\ reports[i].checkpoint.epoch = i - 1
          /\ reports[i].checkpoint.model = paramsAfterPass[i]
          /\ reports[i].loss = AvgLoss(paramsAfterPass[i])
    /\ pc = "report" =>
          /\ Len(paramsAfterPass) = epoch + 1
          /\ checkpoint = [epoch |-> epoch, model |-> paramsAfterPass[epoch + 1]]
          /\ params = checkpoint.model
          /\ loss = AvgLoss(checkpoint.model)

C9_Witness ==
    /\ Len(reports) = 2
    /\ reports[1].checkpoint.model # reports[2].checkpoint.model
    /\ reports[1].loss # reports[2].loss

\* C10: a run in which no phase fails reaches the completed state after
\* exactly E trainer/validator/report cycles and returns the E epoch losses
\* in order; no epoch with an index >= E is ever run.
C10_Completed ==
    /\ pc = "completed"
    /\ returned = loss_results
    /\ Len(returned) = config.epochs
    /\ calls = [trainer |-> config.epochs, validator |-> config.epochs,
                report |-> config.epochs]
    /\ \A i \in 1..Len(returned) : returned[i] = reports[i].loss

C10_EpochBound ==
    /\ epoch <= config.epochs
    /\ pc \in TrainPcs \cup ValPcs \cup {"append", "ckpt", "report"} => epoch < config.epochs
    /\ pc = "completed" => C10_Completed

\* C10: every run eventually fails or completes with E cycles, and never
\* runs an epoch with index >= E.
C10_Terminates == <>(pc = "failed" \/ C10_Completed) /\ [](C10_EpochBound)

C10_Witness ==
    /\ C10_Completed
    /\ config.epochs = MaxEpochs
    /\ returned[1] # returned[2]
====
